---- MODULE Spec2Model ----
(***************************************************************************)
(* HackHub client.  Eight parts, each with its own specification:          *)
(*   Spec, SpecSync  the registration helpers of client/src/utils/api.js   *)
(*                   (the axios instance with its request interceptor,     *)
(*                   registerForHackathon, unregisterFromHackathon and     *)
(*                   getUserRegistrations) on localStorage and the backend *)
(*   SpecModal       RegisterModal and the two pages that host it          *)
(*   SpecDash        fetchDashboardData of the two dashboards              *)
(*   SpecStatus      getHackathonStatus (utils/dateUtils)                  *)
(*   SpecStats       calculateStats and the figures of AnalyticsModal      *)
(*   SpecStudent     toggleFavorite and handleUnregister of the student    *)
(*                   dashboard                                             *)
(*   SpecDetail      HackathonDetail: fetchHackathonDetails,               *)
(*                   checkRegistrationStatus and handleRegister            *)
(*   SpecAuth        AuthProvider: sign-in, logout and the auth listener   *)
(***************************************************************************)
EXTENDS Integers, Sequences, FiniteSets, TLC

VARIABLES
    \* utils/api.js
    currentUser,    \* auth.currentUser: a uid, or NoUser
    localStorage,   \* the browser's localStorage: key -> stored string
    clock,          \* the value new Date() yields at the next registration
    pending,        \* the helper call that awaits its HTTP response (the
                    \* callers await each helper: one call in flight)
    response,       \* what the network delivered to the latest helper call
    outcome,        \* how the latest helper call settled (NoOutcome until then)
    participants,   \* the backend's store: the <<user, hackathon>> pairs it
                    \* lists as participants
    \* RegisterModal and its host page
    host,               \* the page that renders the modal
    showRegisterModal,  \* the host's showRegisterModal state
    pageLoading,        \* the host's loading state
    registered,         \* the host shows the user as registered
    modal,              \* the mounted RegisterModal instance and its state
    submits,            \* the onSubmit invocations started so far
    \* the dashboards
    dashPage,       \* the dashboard that is mounted
    dashLoading,    \* its loading state
    dashFetches,    \* its fetchDashboardData invocations in flight
    dashData,       \* the lists (and stats) it holds in state
    \* pure functions
    args,           \* the arguments a function is applied to
    returned,       \* what it returned
    \* StudentDashboard's handlers
    studentTasks,   \* the toggleFavorite and handleUnregister runs so far
    \* HackathonDetail
    detailPage,     \* the route's id and the page's state
    detailTasks,    \* its asynchronous functions that wait for a response
    \* AuthProvider
    authContext,    \* the provider's state (auth.currentUser is currentUser)
    authTasks       \* auth-state callbacks due, and functions that wait

apiVars == <<currentUser, localStorage, clock, pending, response, outcome,
             participants>>
modalVars == <<host, showRegisterModal, pageLoading, registered, modal, submits>>
dashVars == <<dashPage, dashLoading, dashFetches, dashData>>
pureVars == <<args, returned>>
studentVars == <<studentTasks>>
detailVars == <<detailPage, detailTasks>>
authVars == <<authContext, authTasks>>
moreVars == <<studentVars, detailVars, authVars>>
uiVars == <<modalVars, dashVars, pureVars, moreVars>>
vars == <<apiVars, modalVars, dashVars, pureVars, moreVars>>

----------------------------------------------------------------------------
(* Bounds *)

Users == {"u1", "u2"}
Hackathons == {"h1", "h2"}
MaxRegistrations == 2      \* successful registrations in one behaviour
MaxRemote == 2             \* length of a remote registration list
RemoteDates == {0, 1}      \* registration_date values in remote records

----------------------------------------------------------------------------
(* Values *)

NoUser == "none"
NoAuthorization == <<>>
NoResponse == [status |-> 0, detail |-> ""]
NoCall == [op |-> "none"]
NoOutcome == [op |-> "none", kind |-> "none"]
RegistrationsKey == "myRegistrations"

\* user.getIdToken(): the ID token of the signed-in user
IdToken(user) == <<"idToken", user>>

\* `Bearer ${token}`
Bearer(token) == <<"Bearer">> \o token

\* apiEndpoints.hackathons.register(id) and friends, and '/users/registrations'
RegisterUrl(id) == <<"/hackathons", id, "register">>
UnregisterUrl(id) == <<"/hackathons", id, "unregister">>
RegistrationsUrl == <<"/users", "registrations">>

\* new Error(message): no code, no response, no request
NewError(message) ==
    [code |-> "", response |-> NoResponse, request |-> FALSE, message |-> message]

\* the errors axios rejects a request with
TimeoutError ==
    [code |-> "ECONNABORTED", response |-> NoResponse, request |-> TRUE,
     message |-> "timeout of 10000ms exceeded"]
NetworkError ==
    [code |-> "ERR_NETWORK", response |-> NoResponse, request |-> TRUE,
     message |-> "Network Error"]
Statuses == {400, 401, 403, 404, 408, 500}
Details == {"", "Already registered for this hackathon"}
HttpError(status, detail) ==
    [code |-> IF status >= 500 THEN "ERR_BAD_RESPONSE" ELSE "ERR_BAD_REQUEST",
     response |-> [status |-> status, detail |-> detail], request |-> TRUE,
     message |-> "Request failed with status code"]
AxiosErrors ==
    {TimeoutError, NetworkError}
        \cup {HttpError(s, d) : s \in Statuses, d \in Details}

\* the form data the callers pass to registerForHackathon
NoData == [k \in {} |-> ""]
RegistrationData ==
    {NoData, [hackathon_title |-> "AI Hack", motivation |-> "learn"]}

----------------------------------------------------------------------------
(* The parts a specification leaves alone *)

\* no RegisterModal is mounted; instance counts the mounts so far
NoModal == [instance |-> 0, mounted |-> FALSE, loading |-> FALSE, showConfetti |-> FALSE]

\* no page with a RegisterModal is in use
ModalIdle ==
    /\ host = "StudentDashboard"
    /\ showRegisterModal = FALSE
    /\ pageLoading = FALSE
    /\ registered = FALSE
    /\ modal = NoModal
    /\ submits = <<>>

NoDashData == [hackathons |-> <<>>, myRegistrations |-> <<>>, favorites |-> <<>>]

\* no dashboard is in use
DashIdle ==
    /\ dashPage = "StudentDashboard"
    /\ dashLoading = TRUE
    /\ dashFetches = <<>>
    /\ dashData = NoDashData

NoArgs == [f |-> "none"]
NoReturn == [f |-> "none"]

\* no function is applied
PureIdle == args = NoArgs /\ returned = NoReturn

NoDetail == [id |-> "none"]
\* useState(null) for currentUser and userProfile; changes counts the
\* sign-ins and logouts so far
NoAuthContext == [currentUser |-> "none", userProfile |-> "none", changes |-> 0]

\* no student handler has run
StudentIdle == studentTasks = <<>>

\* no detail page is mounted
DetailIdle == detailPage = NoDetail /\ detailTasks = <<>>

\* no AuthProvider is in use
AuthIdle == authContext = NoAuthContext /\ authTasks = <<>>

MoreIdle == StudentIdle /\ DetailIdle /\ AuthIdle

----------------------------------------------------------------------------
(* localStorage and JSON *)

\* JSON.stringify(value): the string that encodes value
JSONstringify(value) == [json |-> value]

\* JSON.parse(text)
JSONparse(text) == text.json

\* JSON.parse(localStorage.getItem(key) || '[]')
StoredList(storage, key) ==
    IF key \in DOMAIN storage THEN JSONparse(storage[key])
    ELSE JSONparse(JSONstringify(<<>>))

\* localStorage.setItem(key, JSON.stringify(value))
SetItem(storage, key, value) ==
    [k \in DOMAIN storage \cup {key} |->
        IF k = key THEN JSONstringify(value) ELSE storage[k]]

----------------------------------------------------------------------------
(* The request interceptor *)

\* api.interceptors.request: attaches the bearer token of auth.currentUser;
\* tokenOk = FALSE is user.getIdToken() rejecting, which the interceptor
\* logs and swallows
RequestInterceptor(config, user, tokenOk) ==
    IF user # NoUser /\ tokenOk
    THEN [config EXCEPT !.Authorization = Bearer(IdToken(user))]
    ELSE config

Request(method, url, user, tokenOk) ==
    RequestInterceptor(
        [method |-> method, url |-> url, Authorization |-> NoAuthorization],
        user, tokenOk)

----------------------------------------------------------------------------
(* The backend, seen from the client *)

\* a RegistrationRecord as GET /users/registrations returns it for a user
RemoteRecords(user) ==
    {[id |-> <<h, user>>, hackathon_id |-> h, user_id |-> user,
      registration_date |-> d, status |-> "registered",
      hackathon_title |-> "AI Hack"] : h \in Hackathons, d \in RemoteDates}

SeqsUpTo(S, n) == UNION {[1..k -> S] : k \in 0..n}

\* the bodies of a 2xx answer to GET /users/registrations: a registrations
\* list of the token's user, or a body without that field
ListBodies(user) ==
    {[registrations |-> l] : l \in SeqsUpTo(RemoteRecords(user), MaxRemote)}
        \cup {NoData}

\* the user a request is authenticated as (NoUser without a bearer token)
TokenUser(config) ==
    IF config.Authorization = NoAuthorization THEN NoUser
    ELSE config.Authorization[3]

OkResponse(data) == [kind |-> "ok", data |-> data]
ErrorResponse(error) == [kind |-> "error", error |-> error]
NothingReceived == [kind |-> "none"]

----------------------------------------------------------------------------
(* registerForHackathon *)

\* data.hackathon_title || 'Registered Hackathon'
TitleOf(data) ==
    IF "hackathon_title" \in DOMAIN data /\ data.hackathon_title # ""
    THEN data.hackathon_title
    ELSE "Registered Hackathon"

\* const mockRegistration = { id: `${id}_${user.uid}`, ..., ...data }
MockRegistration(id, uid, now, data) ==
    data @@ [id |-> <<id, uid>>, hackathon_id |-> id, user_id |-> uid,
             registration_date |-> now, status |-> "registered",
             hackathon_title |-> TitleOf(data)]

\* mutant: the new registration is not added to the stored list
UpdatedRegistrationsUnchanged(existing, registration) == existing

\* [...existingRegistrations, mockRegistration]
UpdatedRegistrations(existing, registration) == Append(existing, registration)

\* mutant: 408 shares the message of the client-side timeout
StatusMessageSharedTimeout(status, detail) ==
    CASE status = 401 -> "Authentication failed - please login again"
      [] status = 403 -> "Access denied - please check your permissions"
      [] status = 400 -> IF detail # "" THEN detail ELSE "Invalid request"
      [] status = 404 -> "Hackathon not found"
      [] status = 408 -> "Request timeout - please try again"
      [] OTHER -> IF detail # "" THEN detail ELSE "Registration failed"

\* mutant: the server's detail is dropped for status 400
StatusMessageWithoutDetail(status, detail) ==
    CASE status = 401 -> "Authentication failed - please login again"
      [] status = 403 -> "Access denied - please check your permissions"
      [] status = 400 -> "Invalid request"
      [] status = 404 -> "Hackathon not found"
      [] status = 408 -> "Authentication timeout - please try again"
      [] OTHER -> IF detail # "" THEN detail ELSE "Registration failed"

\* the message for an error that carries a response (error.response.status)
StatusMessage(status, detail) ==
    CASE status = 401 -> "Authentication failed - please login again"
      [] status = 403 -> "Access denied - please check your permissions"
      [] status = 400 -> IF detail # "" THEN detail ELSE "Invalid request"
      [] status = 404 -> "Hackathon not found"
      [] status = 408 -> "Authentication timeout - please try again"
      [] OTHER -> IF detail # "" THEN detail ELSE "Registration failed"

\* mutant: an error without response and request is replaced by a generic one
RegisterCatchGeneric(error) ==
    IF error.code = "ECONNABORTED"
    THEN NewError("Request timeout - please try again")
    ELSE IF error.response # NoResponse
    THEN NewError(StatusMessage(error.response.status, error.response.detail))
    ELSE IF error.request
    THEN NewError("No response from server - please check your connection")
    ELSE NewError("Registration failed")

\* the catch block of registerForHackathon: the error it throws for the
\* error it caught
RegisterCatch(error) ==
    IF error.code = "ECONNABORTED"
    THEN NewError("Request timeout - please try again")
    ELSE IF error.response # NoResponse
    THEN NewError(StatusMessage(error.response.status, error.response.detail))
    ELSE IF error.request
    THEN NewError("No response from server - please check your connection")
    ELSE error

Returned(op, value) == [op |-> op, kind |-> "return", value |-> value]
Thrown(op, error) == [op |-> op, kind |-> "throw", error |-> error]

\* registerForHackathon up to its first await: the authentication check,
\* then api.post through the request interceptor
RegisterForHackathon(id, data, tokenOk) ==
    /\ pending = NoCall
    /\ IF currentUser = NoUser
       THEN /\ outcome' = Thrown("register",
                 RegisterCatch(NewError("Please login to register for hackathons")))
            /\ response' = NothingReceived
            /\ UNCHANGED pending
       ELSE /\ pending' = [op |-> "register", id |-> id, data |-> data,
                           user |-> currentUser,
                           config |-> Request("post", RegisterUrl(id),
                                              currentUser, tokenOk)]
            /\ response' = NothingReceived
            /\ outcome' = NoOutcome
    /\ UNCHANGED <<currentUser, localStorage, clock, participants, uiVars>>

\* api.post resolved: store the registration in localStorage, return.
\* The backend answers 2xx only to a request that carries a bearer token.
RegisterResolved ==
    /\ pending.op = "register"
    /\ TokenUser(pending.config) # NoUser
    /\ clock < MaxRegistrations
    /\ LET existingRegistrations == StoredList(localStorage, RegistrationsKey)
           mockRegistration ==
               MockRegistration(pending.id, pending.user, clock, pending.data)
       IN  localStorage' = SetItem(localStorage, RegistrationsKey,
               UpdatedRegistrations(existingRegistrations, mockRegistration))
    /\ clock' = clock + 1
    /\ response' = OkResponse([message |-> "Successfully registered"])
    /\ outcome' = Returned("register", response')
    /\ pending' = NoCall
    /\ participants' = participants \cup {<<TokenUser(pending.config), pending.id>>}
    /\ UNCHANGED <<currentUser, uiVars>>

\* api.post rejected: the catch block maps the error and throws
RegisterRejected ==
    /\ pending.op = "register"
    /\ \E error \in AxiosErrors :
        /\ response' = ErrorResponse(error)
        /\ outcome' = Thrown("register", RegisterCatch(error))
    /\ pending' = NoCall
    /\ UNCHANGED <<currentUser, localStorage, clock, participants, uiVars>>

----------------------------------------------------------------------------
(* unregisterFromHackathon *)

\* mutant: only the first record of the hackathon is removed
WithoutFirstMatch(registrations, id) ==
    LET first == {i \in 1..Len(registrations) :
                    /\ registrations[i].hackathon_id = id
                    /\ \A j \in 1..(i - 1) : registrations[j].hackathon_id # id}
    IN  IF first = {} THEN registrations
        ELSE LET i == CHOOSE k \in first : TRUE
             IN  SubSeq(registrations, 1, i - 1)
                    \o SubSeq(registrations, i + 1, Len(registrations))

\* existingRegistrations.filter(reg => reg.hackathon_id !== id)
WithoutHackathon(registrations, id) ==
    SelectSeq(registrations, LAMBDA reg : reg.hackathon_id # id)

\* the object the catch block of unregisterFromHackathon returns
LocalUnregistered ==
    [data |-> [message |-> "Successfully unregistered from hackathon (local)",
               success |-> TRUE]]

\* unregisterFromHackathon up to its await: api.delete through the request
\* interceptor; there is no authentication check
UnregisterFromHackathon(id, tokenOk) ==
    /\ pending = NoCall
    /\ pending' = [op |-> "unregister", id |-> id, user |-> currentUser,
                   config |-> Request("delete", UnregisterUrl(id),
                                      currentUser, tokenOk)]
    /\ response' = NothingReceived
    /\ outcome' = NoOutcome
    /\ UNCHANGED <<currentUser, localStorage, clock, participants, uiVars>>

\* api.delete resolved: remove the hackathon's records from localStorage
UnregisterResolved ==
    /\ pending.op = "unregister"
    /\ TokenUser(pending.config) # NoUser
    /\ localStorage' = SetItem(localStorage, RegistrationsKey,
           WithoutHackathon(StoredList(localStorage, RegistrationsKey), pending.id))
    /\ response' = OkResponse([message |-> "Successfully unregistered"])
    /\ outcome' = Returned("unregister", response')
    /\ pending' = NoCall
    /\ participants' = participants \ {<<TokenUser(pending.config), pending.id>>}
    /\ UNCHANGED <<currentUser, clock, uiVars>>

\* api.delete rejected: the catch block removes the records all the same and
\* returns a success object
UnregisterRejected ==
    /\ pending.op = "unregister"
    /\ \E error \in AxiosErrors : response' = ErrorResponse(error)
    /\ localStorage' = SetItem(localStorage, RegistrationsKey,
           WithoutHackathon(StoredList(localStorage, RegistrationsKey), pending.id))
    /\ outcome' = Returned("unregister", LocalUnregistered)
    /\ pending' = NoCall
    /\ UNCHANGED <<currentUser, clock, participants, uiVars>>

----------------------------------------------------------------------------
(* getUserRegistrations *)

\* self.findIndex(r => r.hackathon_id === id), 1-based; 0 when there is none
FindIndex(self, id) ==
    IF \E i \in 1..Len(self) : self[i].hackathon_id = id
    THEN CHOOSE i \in 1..Len(self) :
            /\ self[i].hackathon_id = id
            /\ \A j \in 1..(i - 1) : self[j].hackathon_id # id
    ELSE 0

\* allRegistrations.filter((reg, index, self) =>
\*     index === self.findIndex(r => r.hackathon_id === reg.hackathon_id))
UniqueRegistrations(allRegistrations) ==
    LET RECURSIVE Scan(_)
        Scan(index) ==
            IF index > Len(allRegistrations) THEN <<>>
            ELSE (IF index = FindIndex(allRegistrations,
                                       allRegistrations[index].hackathon_id)
                  THEN <<allRegistrations[index]>> ELSE <<>>) \o Scan(index + 1)
    IN  Scan(1)

\* response.data?.registrations || []
BackendRegistrations(data) ==
    IF "registrations" \in DOMAIN data THEN data.registrations ELSE <<>>

\* mutant: the two sources concatenated the other way round
MergedRegistrationsLocalFirst(data, localRegistrations) ==
    UniqueRegistrations(localRegistrations \o BackendRegistrations(data))

\* the try block: [...backendRegistrations, ...localRegistrations], deduplicated
MergedRegistrations(data, localRegistrations) ==
    UniqueRegistrations(BackendRegistrations(data) \o localRegistrations)

\* mutant: the fallback gives up and returns no registrations
FallbackRegistrationsEmpty(localRegistrations) == <<>>

\* the catch block: localStorage only
FallbackRegistrations(localRegistrations) == localRegistrations

RegistrationsResult(registrations) == [data |-> [registrations |-> registrations]]

\* getUserRegistrations up to its await: api.get through the request
\* interceptor; there is no authentication check
GetUserRegistrations(tokenOk) ==
    /\ pending = NoCall
    /\ pending' = [op |-> "list", user |-> currentUser,
                   config |-> Request("get", RegistrationsUrl,
                                      currentUser, tokenOk)]
    /\ response' = NothingReceived
    /\ outcome' = NoOutcome
    /\ UNCHANGED <<currentUser, localStorage, clock, participants, uiVars>>

\* mutant: the merged list is written back to localStorage
GetUserRegistrationsResolvedWriteBack ==
    /\ pending.op = "list"
    /\ TokenUser(pending.config) # NoUser
    /\ \E data \in ListBodies(TokenUser(pending.config)) :
        /\ response' = OkResponse(data)
        /\ outcome' = Returned("list", RegistrationsResult(
               MergedRegistrations(data, StoredList(localStorage, RegistrationsKey))))
        /\ localStorage' = SetItem(localStorage, RegistrationsKey,
               MergedRegistrations(data, StoredList(localStorage, RegistrationsKey)))
    /\ pending' = NoCall
    /\ UNCHANGED <<currentUser, clock, participants, uiVars>>

\* api.get resolved: merge the remote list with localStorage
GetUserRegistrationsResolved ==
    /\ pending.op = "list"
    /\ TokenUser(pending.config) # NoUser
    /\ \E data \in ListBodies(TokenUser(pending.config)) :
        /\ response' = OkResponse(data)
        /\ outcome' = Returned("list", RegistrationsResult(
               MergedRegistrations(data, StoredList(localStorage, RegistrationsKey))))
    /\ pending' = NoCall
    /\ UNCHANGED <<currentUser, localStorage, clock, participants, uiVars>>

\* api.get rejected: fall back to localStorage
GetUserRegistrationsRejected ==
    /\ pending.op = "list"
    /\ \E error \in AxiosErrors : response' = ErrorResponse(error)
    /\ outcome' = Returned("list", RegistrationsResult(
           FallbackRegistrations(StoredList(localStorage, RegistrationsKey))))
    /\ pending' = NoCall
    /\ UNCHANGED <<currentUser, localStorage, clock, participants, uiVars>>

\* the hackathons the backend's store lists the user in
ParticipatesIn(user) == {h \in Hackathons : <<user, h>> \in participants}

\* api.get resolved, the backend answering from its store: one record for
\* each hackathon that lists the token's user as participant
SyncGetUserRegistrationsResolved ==
    /\ GetUserRegistrationsResolved
    /\ "registrations" \in DOMAIN response'.data
    /\ LET remote == response'.data.registrations
           mine == ParticipatesIn(TokenUser(pending.config))
       IN  /\ Len(remote) = Cardinality(mine)
           /\ {remote[i].hackathon_id : i \in 1..Len(remote)} = mine

----------------------------------------------------------------------------
(* Authentication (contexts/AuthContext.js) *)

\* signin: signInWithEmailAndPassword makes the user auth.currentUser
SignIn(user) ==
    /\ currentUser = NoUser
    /\ currentUser' = user
    /\ UNCHANGED <<localStorage, clock, pending, response, outcome,
                   participants, uiVars>>

\* logout: signOut(auth) clears auth.currentUser; localStorage is not touched
Logout ==
    /\ currentUser # NoUser
    /\ currentUser' = NoUser
    /\ UNCHANGED <<localStorage, clock, pending, response, outcome,
                   participants, uiVars>>

----------------------------------------------------------------------------
(* Specification *)

\* the api module after loading: nobody signed in, nothing stored
ApiInit ==
    /\ currentUser = NoUser
    /\ localStorage = [k \in {} |-> JSONstringify(<<>>)]
    /\ clock = 0
    /\ pending = NoCall
    /\ response = NothingReceived
    /\ outcome = NoOutcome
    /\ participants = {}

Init == ApiInit /\ ModalIdle /\ DashIdle /\ PureIdle /\ MoreIdle

Next ==
    \/ \E user \in Users : SignIn(user)
    \/ Logout
    \/ \E id \in Hackathons, data \in RegistrationData, tokenOk \in BOOLEAN :
           RegisterForHackathon(id, data, tokenOk)
    \/ RegisterResolved
    \/ RegisterRejected
    \/ \E id \in Hackathons, tokenOk \in BOOLEAN : UnregisterFromHackathon(id, tokenOk)
    \/ UnregisterResolved
    \/ UnregisterRejected
    \/ \E tokenOk \in BOOLEAN : GetUserRegistrations(tokenOk)
    \/ GetUserRegistrationsResolved
    \/ GetUserRegistrationsRejected

Spec == Init /\ [][Next]_vars

\* the same helpers against a backend whose listing is its store
SyncNext ==
    \/ \E user \in Users : SignIn(user)
    \/ Logout
    \/ \E id \in Hackathons, data \in RegistrationData, tokenOk \in BOOLEAN :
           RegisterForHackathon(id, data, tokenOk)
    \/ RegisterResolved
    \/ RegisterRejected
    \/ \E id \in Hackathons, tokenOk \in BOOLEAN : UnregisterFromHackathon(id, tokenOk)
    \/ UnregisterResolved
    \/ UnregisterRejected
    \/ \E tokenOk \in BOOLEAN : GetUserRegistrations(tokenOk)
    \/ SyncGetUserRegistrationsResolved
    \/ GetUserRegistrationsRejected

SpecSync == Init /\ [][SyncNext]_vars

----------------------------------------------------------------------------
(* RegisterModal and the pages that host it
   (components/RegisterModal.js, pages/Profile.js, pages/HackathonDetail.js) *)

MaxSubmits == 2
MaxMounts == 3

Hosts == {"StudentDashboard", "HackathonDetail"}

\* {showRegisterModal && <RegisterModal .../>} below the page's
\* if (loading) return <LoadingSpinner/>: the component is mounted while the
\* page shows it, and a new mount starts from useState(false) twice
Rendered(show, loading, m) ==
    IF show /\ ~loading
    THEN IF m.mounted THEN m
         ELSE [instance |-> m.instance + 1, mounted |-> TRUE,
               loading |-> FALSE, showConfetti |-> FALSE]
    ELSE [instance |-> m.instance, mounted |-> FALSE,
          loading |-> FALSE, showConfetti |-> FALSE]

\* a state setter of instance inst; without effect once it is unmounted
SetState(m, inst, field, v) ==
    IF m.mounted /\ m.instance = inst THEN [m EXCEPT ![field] = v] ELSE m

\* one run of onSubmit: pc is where it waits
NewSubmit(inst) ==
    [instance |-> inst, pc |-> "register", failed |-> FALSE,
     caught |-> FALSE, closed |-> FALSE]

\* the Register button of the page
OpenModal ==
    /\ ~showRegisterModal /\ ~pageLoading /\ ~registered
    /\ modal.instance < MaxMounts
    /\ showRegisterModal' = TRUE
    /\ modal' = Rendered(TRUE, pageLoading, modal)
    /\ UNCHANGED <<host, pageLoading, registered, submits, apiVars, dashVars, pureVars, moreVars>>

\* onClose from the header's X button, or from Cancel (disabled={loading})
CloseModal(control) ==
    /\ modal.mounted
    /\ control = "Cancel" => ~modal.loading
    /\ showRegisterModal' = FALSE
    /\ modal' = Rendered(FALSE, pageLoading, modal)
    /\ UNCHANGED <<host, pageLoading, registered, submits, apiVars, dashVars, pureVars, moreVars>>

\* the submit button (disabled={loading}): onSubmit up to await onRegister
OnSubmit ==
    /\ modal.mounted /\ ~modal.loading
    /\ Len(submits) < MaxSubmits
    /\ modal' = [modal EXCEPT !.loading = TRUE]
    /\ submits' = Append(submits, NewSubmit(modal.instance))
    /\ UNCHANGED <<host, showRegisterModal, pageLoading, registered, apiVars, dashVars, pureVars, moreVars>>

\* onSubmit after onRegister returned normally: confetti, the 3 s timer, then
\* finally setLoading(false)
SubmitSucceeded(m, inst) ==
    SetState(SetState(m, inst, "showConfetti", TRUE), inst, "loading", FALSE)

\* onSubmit after onRegister threw: catch, then finally setLoading(false)
SubmitCaught(m, inst) == SetState(m, inst, "loading", FALSE)

\* registerForHackathon rejected inside the page's handleRegister
RegisterFailed(i) ==
    /\ i \in 1..Len(submits) /\ submits[i].pc = "register"
    /\ IF host = "StudentDashboard"
       THEN \* catch: toast.error, and handleRegister returns normally
            /\ submits' = [submits EXCEPT ![i].failed = TRUE, ![i].pc = "timer"]
            /\ modal' = SubmitSucceeded(modal, submits[i].instance)
       ELSE \* catch: toast.error; throw error
            /\ submits' = [submits EXCEPT ![i].failed = TRUE, ![i].caught = TRUE,
                                          ![i].pc = "done"]
            /\ modal' = SubmitCaught(modal, submits[i].instance)
    /\ UNCHANGED <<host, showRegisterModal, pageLoading, registered, apiVars, dashVars, pureVars, moreVars>>

\* registerForHackathon resolved inside the page's handleRegister;
\* withHackathon: the response carries the updated hackathon
RegisterSucceeded(i, withHackathon) ==
    /\ i \in 1..Len(submits) /\ submits[i].pc = "register"
    /\ IF host = "HackathonDetail" /\ withHackathon
       THEN \* setIsRegistered(true); setHackathon(...); return
            /\ registered' = TRUE
            /\ pageLoading' = pageLoading
            /\ submits' = [submits EXCEPT ![i].pc = "timer"]
            /\ modal' = SubmitSucceeded(modal, submits[i].instance)
       ELSE \* await fetchDashboardData() / fetchHackathonDetails():
            \* setLoading(true) of the page
            /\ registered' = (host = "HackathonDetail" \/ registered)
            /\ pageLoading' = TRUE
            /\ submits' = [submits EXCEPT ![i].pc = "refresh"]
            /\ modal' = Rendered(showRegisterModal, TRUE, modal)
    /\ UNCHANGED <<host, showRegisterModal, apiVars, dashVars, pureVars, moreVars>>

\* the page's refresh ended (finally setLoading(false)); handleRegister
\* returns and onSubmit goes on
RefreshSettled(i) ==
    /\ i \in 1..Len(submits) /\ submits[i].pc = "refresh"
    /\ pageLoading' = FALSE
    /\ registered' = TRUE
    /\ showRegisterModal' =
          IF host = "StudentDashboard" THEN FALSE ELSE showRegisterModal
    /\ submits' = [submits EXCEPT ![i].pc = "timer"]
    /\ modal' = SubmitSucceeded(
                   Rendered(showRegisterModal', FALSE, modal), submits[i].instance)
    /\ UNCHANGED <<host, apiVars, dashVars, pureVars, moreVars>>

\* setTimeout(() => { setShowConfetti(false); onClose(); }, 3000)
TimerFired(i) ==
    /\ i \in 1..Len(submits) /\ submits[i].pc = "timer"
    /\ showRegisterModal' = FALSE
    /\ submits' = [submits EXCEPT ![i].pc = "done", ![i].closed = TRUE]
    /\ modal' = Rendered(FALSE, pageLoading, modal)
    /\ UNCHANGED <<host, pageLoading, registered, apiVars, dashVars, pureVars, moreVars>>

ModalInit ==
    /\ host \in Hosts
    /\ showRegisterModal = FALSE
    /\ pageLoading = FALSE
    /\ registered = FALSE
    /\ modal = NoModal
    /\ submits = <<>>

InitModal == ApiInit /\ ModalInit /\ DashIdle /\ PureIdle /\ MoreIdle

NextModal ==
    \/ OpenModal
    \/ \E control \in {"X", "Cancel"} : CloseModal(control)
    \/ OnSubmit
    \/ \E i \in 1..MaxSubmits : RegisterFailed(i)
    \/ \E i \in 1..MaxSubmits, withHackathon \in BOOLEAN : RegisterSucceeded(i, withHackathon)
    \/ \E i \in 1..MaxSubmits : RefreshSettled(i)
    \/ \E i \in 1..MaxSubmits : TimerFired(i)

SpecModal == InitModal /\ [][NextModal]_vars

----------------------------------------------------------------------------
(* getHackathonStatus (utils/dateUtils.js) *)

MaxTime == 3

\* a Date: new Date(x) of a string that does not parse is an Invalid Date,
\* whose time is NaN
Date(t) == [valid |-> TRUE, time |-> t]
InvalidDate == [valid |-> FALSE, time |-> 0]
Dates == {Date(t) : t \in 0..MaxTime} \cup {InvalidDate}

\* the relational operators on Dates: false when either time is NaN
Gt(a, b) == a.valid /\ b.valid /\ a.time > b.time
Ge(a, b) == a.valid /\ b.valid /\ a.time >= b.time
Le(a, b) == a.valid /\ b.valid /\ a.time <= b.time

\* mutant: the deadline is looked at before the start
getHackathonStatusDeadlineFirst(now, start, end, regDeadline) ==
    IF Gt(now, end) THEN "completed"
    ELSE IF Gt(now, regDeadline) THEN "registration_closed"
    ELSE IF Ge(now, start) /\ Le(now, end) THEN "ongoing"
    ELSE "upcoming"

getHackathonStatus(now, start, end, regDeadline) ==
    IF Gt(now, end) THEN "completed"
    ELSE IF Ge(now, start) /\ Le(now, end) THEN "ongoing"
    ELSE IF Gt(now, regDeadline) THEN "registration_closed"
    ELSE "upcoming"

StatusArgs ==
    [f : {"getHackathonStatus"}, now : {Date(t) : t \in 0..MaxTime},
     startDate : Dates, endDate : Dates, registrationDeadline : Dates]

\* the function is applied to its arguments at the present time
GetHackathonStatus ==
    /\ args.f = "getHackathonStatus"
    /\ returned = NoReturn
    /\ returned' = [f |-> "getHackathonStatus",
                    value |-> getHackathonStatus(args.now, args.startDate,
                                  args.endDate, args.registrationDeadline)]
    /\ UNCHANGED <<args, apiVars, modalVars, dashVars, moreVars>>

Lt(a, b) == a.valid /\ b.valid /\ a.time < b.time

\* mutant: registration closes when the deadline is reached
isRegistrationOpenBeforeDeadline(now, deadline, start) ==
    Lt(now, deadline) /\ Lt(now, start)

\* now <= deadline && now < start
isRegistrationOpen(now, deadline, start) ==
    Le(now, deadline) /\ Lt(now, start)

\* HackathonDetail.canRegister; signedIn: currentUser is set
canRegister(signedIn, isRegistered, now, registrationDeadline, startDate) ==
    IF ~signedIn \/ isRegistered THEN FALSE
    ELSE Le(now, registrationDeadline) /\ Lt(now, startDate)

IsRegistrationOpen ==
    /\ args.f = "getHackathonStatus"
    /\ returned = NoReturn
    /\ returned' = [f |-> "isRegistrationOpen",
                    value |-> isRegistrationOpen(args.now,
                                  args.registrationDeadline, args.startDate)]
    /\ UNCHANGED <<args, apiVars, modalVars, dashVars, moreVars>>

\* the detail page decides whether to offer registration
CanRegister(signedIn, isRegistered) ==
    /\ args.f = "getHackathonStatus"
    /\ returned = NoReturn
    /\ returned' = [f |-> "canRegister",
                    currentUser |-> signedIn, isRegistered |-> isRegistered,
                    value |-> canRegister(signedIn, isRegistered, args.now,
                                  args.registrationDeadline, args.startDate)]
    /\ UNCHANGED <<args, apiVars, modalVars, dashVars, moreVars>>

\* time passes before the function is applied again
Tick ==
    /\ args.f = "getHackathonStatus"
    /\ args.now.time < MaxTime
    /\ args' = [args EXCEPT !.now = Date(args.now.time + 1)]
    /\ returned' = NoReturn
    /\ UNCHANGED <<apiVars, modalVars, dashVars, moreVars>>

InitStatus ==
    /\ ApiInit /\ ModalIdle /\ DashIdle /\ MoreIdle
    /\ args \in StatusArgs
    /\ args.now = Date(0)
    /\ returned = NoReturn

NextStatus ==
    \/ GetHackathonStatus
    \/ IsRegistrationOpen
    \/ \E signedIn, isRegistered \in BOOLEAN : CanRegister(signedIn, isRegistered)
    \/ Tick

SpecStatus == InitStatus /\ [][NextStatus]_vars

----------------------------------------------------------------------------
(* Dashboard statistics (pages/FacultyDashboard.js calculateStats,
   components/AnalyticsModal.js) *)

MaxHackathons == 3
MaxParticipants == 2

HackathonStatuses == {"upcoming", "ongoing", "completed"}

\* a hackathon of the list; a record may come without its participants list
HackathonRecord(id, status, listed, n) ==
    IF listed
    THEN [id |-> id, status |-> status, participants |-> [k \in 1..n |-> k]]
    ELSE [id |-> id, status |-> status]

HackathonLists ==
    UNION {{[i \in 1..len |-> HackathonRecord(i, shape[i].status,
                                  shape[i].listed, shape[i].n)] :
              shape \in [1..len -> [status : HackathonStatuses,
                                    listed : BOOLEAN,
                                    n : 0..MaxParticipants]]} :
           len \in 0..MaxHackathons}

\* JavaScript values that are not records of the list
Undefined == [type |-> "undefined"]
Obj(fields) == [type |-> "object", fields |-> fields]
EmptyObject == Obj([name \in {} |-> 0])

\* mutant: a record without participants list counts as one registration
ParticipantCountMissingAsOne(h) ==
    IF "participants" \in DOMAIN h THEN Len(h.participants) ELSE 1

\* h.participants?.length || 0
ParticipantCount(h) ==
    IF "participants" \in DOMAIN h THEN Len(h.participants) ELSE 0

\* hackathonData.reduce((sum, h) => sum + (h.participants?.length || 0), 0)
RECURSIVE SumFrom(_, _, _)
SumFrom(hackathons, i, sum) ==
    IF i > Len(hackathons) THEN sum
    ELSE SumFrom(hackathons, i + 1, sum + ParticipantCount(hackathons[i]))

TotalRegistrations(hackathons) == SumFrom(hackathons, 1, 0)

WithStatus(hackathons, status) ==
    SelectSeq(hackathons, LAMBDA h : h.status = status)

calculateStats(hackathonData) ==
    [totalHackathons |-> Len(hackathonData),
     totalRegistrations |-> TotalRegistrations(hackathonData),
     activeHackathons |-> Len(WithStatus(hackathonData, "ongoing")),
     completedHackathons |-> Len(WithStatus(hackathonData, "completed"))]

\* Math.round(totalRegistrations / hackathons.length), halves rounded up
AvgRegistrations(hackathons) ==
    IF Len(hackathons) > 0
    THEN (2 * TotalRegistrations(hackathons) + Len(hackathons))
            \div (2 * Len(hackathons))
    ELSE 0

\* hackathons[0]
FirstElement(hackathons) ==
    IF Len(hackathons) > 0 THEN Obj(hackathons[1]) ELSE Undefined

\* mutant: the reduction starts from hackathons[0] alone
InitialMaxFirstElement(hackathons) == FirstElement(hackathons)

\* hackathons[0] || {}
InitialMax(hackathons) ==
    IF FirstElement(hackathons).type = "undefined" THEN EmptyObject
    ELSE FirstElement(hackathons)

\* mutant: a later record with as many participants replaces the maximum
MoreParticipantsOrAsMany(h, max) ==
    ParticipantCount(h) >= ParticipantCount(max.fields)

\* (h.participants?.length || 0) > (max.participants?.length || 0)
MoreParticipants(h, max) ==
    ParticipantCount(h) > ParticipantCount(max.fields)

\* hackathons.reduce((max, h) => ... ? h : max, hackathons[0] || {})
RECURSIVE MostPopularFrom(_, _, _)
MostPopularFrom(hackathons, i, max) ==
    IF i > Len(hackathons) THEN max
    ELSE MostPopularFrom(hackathons, i + 1,
             IF MoreParticipants(hackathons[i], max)
             THEN Obj(hackathons[i]) ELSE max)

MostPopular(hackathons) == MostPopularFrom(hackathons, 1, InitialMax(hackathons))

\* what AnalyticsModal computes from its hackathons prop and shows
AnalyticsModal(hackathons) ==
    [totalRegistrations |-> TotalRegistrations(hackathons),
     avgRegistrations |-> AvgRegistrations(hackathons),
     mostPopular |-> MostPopular(hackathons),
     mostPopularCount |->
         IF MostPopular(hackathons).type = "object"
         THEN ParticipantCount(MostPopular(hackathons).fields) ELSE 0]

\* hackathons.sort((a, b) => (b.participants?.length || 0)
\*                            - (a.participants?.length || 0)):
\* the array itself, by falling count, equal counts keeping their order
RECURSIVE SortedFrom(_, _)
SortedFrom(hackathons, count) ==
    IF count < 0 THEN <<>>
    ELSE SelectSeq(hackathons, LAMBDA h : ParticipantCount(h) = count)
            \o SortedFrom(hackathons, count - 1)

SortedByParticipants(hackathons) ==
    SortedFrom(hackathons, TotalRegistrations(hackathons))

StatsArgs == [f : {"stats"}, hackathons : HackathonLists]

\* FacultyDashboard computes its statistics from the list
CalculateStats ==
    /\ args.f = "stats"
    /\ returned = NoReturn
    /\ returned' = [f |-> "calculateStats", value |-> calculateStats(args.hackathons)]
    /\ UNCHANGED <<args, apiVars, modalVars, dashVars, moreVars>>

\* AnalyticsModal renders with the list as its prop; the table of the top
\* hackathons sorts that array itself
RenderAnalyticsModal ==
    /\ args.f = "stats"
    /\ returned.f # "AnalyticsModal"
    /\ returned' = [f |-> "AnalyticsModal", value |-> AnalyticsModal(args.hackathons)]
    /\ args' = [args EXCEPT !.hackathons = SortedByParticipants(args.hackathons)]
    /\ UNCHANGED <<apiVars, modalVars, dashVars, moreVars>>

InitStats ==
    /\ ApiInit /\ ModalIdle /\ DashIdle /\ MoreIdle
    /\ args \in StatsArgs
    /\ returned = NoReturn

NextStats == CalculateStats \/ RenderAnalyticsModal

SpecStats == InitStats /\ [][NextStats]_vars

----------------------------------------------------------------------------
(* fetchDashboardData (pages/Profile.js StudentDashboard,
   pages/FacultyDashboard.js) *)

MaxFetches == 2

DashPages == {"StudentDashboard", "FacultyDashboard"}

\* the listing calls one load awaits
Calls(page) ==
    IF page = "StudentDashboard"
    THEN {"hackathons", "registrations", "favorites"}
    ELSE {"hackathons"}

\* how a listing call settles: resolved with its list, resolved with a body
\* that lacks the list, resolved with a response without data, or rejected
Settlements == {"listed", "nolist", "nodata", "rejected"}

Items(call) ==
    IF call = "hackathons"
    THEN <<HackathonRecord(1, "ongoing", TRUE, 1),
           HackathonRecord(2, "upcoming", FALSE, 0)>>
    ELSE IF call = "registrations" THEN <<[hackathon_id |-> "h1"]>>
    ELSE <<[id |-> "h1"]>>

\* response.data.<list> || []; for a rejected call of StudentDashboard the
\* response is the default of its .catch
Listed(call, results) ==
    IF results[call] = "listed" THEN Items(call) ELSE <<>>

\* whether the statements after the await throw: response.data.hackathons
\* of a response without data is a TypeError; StudentDashboard reads the
\* other two with ?. and turns rejections into defaults, FacultyDashboard
\* awaits getHackathons as it is
Threw(page, results) ==
    IF page = "StudentDashboard"
    THEN results["hackathons"] = "nodata"
    ELSE results["hackathons"] \in {"nodata", "rejected"}

\* the state the page shows before its first load has ended
InitialDashData(page) ==
    IF page = "StudentDashboard"
    THEN [hackathons |-> <<>>, myRegistrations |-> <<>>, favorites |-> <<>>]
    ELSE [hackathons |-> <<>>, stats |-> calculateStats(<<>>)]

\* the state set by the try block, or by the catch block when it threw
Fetched(page, results) ==
    IF Threw(page, results) THEN InitialDashData(page)
    ELSE IF page = "StudentDashboard"
    THEN [hackathons |-> Listed("hackathons", results),
          myRegistrations |-> Listed("registrations", results),
          favorites |-> [i \in 1..Len(Listed("favorites", results)) |->
                            Listed("favorites", results)[i].id]]
    ELSE [hackathons |-> Listed("hackathons", results),
          stats |-> calculateStats(Listed("hackathons", results))]

\* mutant: setLoading(false) is the last statement of the try block
LoadingAfterTry(loading, threw) == IF threw THEN loading ELSE FALSE

\* finally { setLoading(false); }
LoadingAfter(loading, threw) == FALSE

\* one run of fetchDashboardData, waiting for its calls; cause: what ran it
NewFetch(cause) ==
    [pc |-> "await", cause |-> cause, threw |-> FALSE, rejected |-> 0]

\* fetchDashboardData up to its await: setLoading(true); run on mount, and
\* by FacultyDashboard after a hackathon was created or updated
FetchDashboardData ==
    /\ Len(dashFetches) < MaxFetches
    /\ dashLoading' = TRUE
    /\ dashFetches' = Append(dashFetches, NewFetch("load"))
    /\ UNCHANGED <<dashPage, dashData, apiVars, modalVars, pureVars, moreVars>>

\* every listing call of load i has settled: the rest of fetchDashboardData
FetchSettled(i, results) ==
    /\ i \in 1..Len(dashFetches) /\ dashFetches[i].pc = "await"
    /\ dashData' = Fetched(dashPage, results)
    /\ dashLoading' = LoadingAfter(dashLoading, Threw(dashPage, results))
    /\ dashFetches' = [dashFetches EXCEPT ![i] =
          [pc |-> "done", cause |-> dashFetches[i].cause,
           threw |-> Threw(dashPage, results),
           rejected |-> Cardinality({c \in Calls(dashPage) :
                                        results[c] = "rejected"})]]
    /\ UNCHANGED <<dashPage, apiVars, modalVars, pureVars, moreVars>>

\* mutant: the handler ends without the refresh
NotRefreshing(fetches, cause) == fetches

\* "Refresh data to ensure consistency": await fetchDashboardData() at the
\* end of handleDeleteHackathon and handleEditSuccess
Refreshing(fetches, cause) == Append(fetches, NewFetch(cause))

\* the records EditHackathonModal hands to onSuccess
EditedHackathons ==
    {HackathonRecord(id, "completed", TRUE, n) : id \in 1..2, n \in {0, 2}}

\* handleDeleteHackathon after apiHelpers.deleteHackathon resolved (a
\* rejection only shows a toast): the record is filtered out of the list,
\* then the data is refreshed
DeleteHackathonResolved(id) ==
    /\ dashPage = "FacultyDashboard"
    /\ Len(dashFetches) < MaxFetches
    /\ dashData' = [dashData EXCEPT !.hackathons =
                       SelectSeq(dashData.hackathons, LAMBDA h : h.id # id)]
    /\ dashLoading' = TRUE
    /\ dashFetches' = Refreshing(dashFetches, "delete")
    /\ UNCHANGED <<dashPage, apiVars, modalVars, pureVars, moreVars>>

\* handleEditSuccess: the record is replaced in the list, then the data is
\* refreshed
EditSuccess(updatedHackathon) ==
    /\ dashPage = "FacultyDashboard"
    /\ Len(dashFetches) < MaxFetches
    /\ dashData' = [dashData EXCEPT !.hackathons =
                       [i \in 1..Len(dashData.hackathons) |->
                           IF dashData.hackathons[i].id = updatedHackathon.id
                           THEN updatedHackathon ELSE dashData.hackathons[i]]]
    /\ dashLoading' = TRUE
    /\ dashFetches' = Refreshing(dashFetches, "edit")
    /\ UNCHANGED <<dashPage, apiVars, modalVars, pureVars, moreVars>>

DashInit ==
    /\ dashPage \in DashPages
    /\ dashLoading = TRUE
    /\ dashFetches = <<>>
    /\ dashData = InitialDashData(dashPage)

InitDash == ApiInit /\ ModalIdle /\ DashInit /\ PureIdle /\ MoreIdle

NextDash ==
    \/ FetchDashboardData
    \/ \E i \in 1..MaxFetches, results \in [Calls(dashPage) -> Settlements] :
          FetchSettled(i, results)
    \/ \E id \in 1..2 : DeleteHackathonResolved(id)
    \/ \E updatedHackathon \in EditedHackathons : EditSuccess(updatedHackathon)

SpecDash == InitDash /\ [][NextDash]_vars

----------------------------------------------------------------------------
(* StudentDashboard: favorites and unregistration *)

MaxToggles == 2
MaxUnregisters == 1

\* the student whose dashboard is shown
Student == "u1"

\* `favorites_${userProfile?.uid}`
FavoritesKey == "favorites_u1"

\* the handler runs of one kind started so far
TasksOf(op) == {i \in 1..Len(studentTasks) : studentTasks[i].op = op}

\* favorites.includes(hackathonId)
Includes(favorites, id) == \E i \in 1..Len(favorites) : favorites[i] = id

\* isFavorited ? list.filter(id => id !== hackathonId) : [...list, hackathonId]
Toggled(list, isFavorited, id) ==
    IF isFavorited THEN SelectSeq(list, LAMBDA f : f # id)
    ELSE Append(list, id)

\* myRegistrations.some(reg => reg.hackathon_id === hackathonId)
isRegistered(myRegistrations, id) ==
    \E i \in 1..Len(myRegistrations) : myRegistrations[i].hackathon_id = id

\* toggleFavorite up to its await; the run keeps the favorites of the
\* render that created it
ToggleFavorite(id) ==
    /\ dashPage = "StudentDashboard" /\ ~dashLoading
    /\ Cardinality(TasksOf("toggle")) < MaxToggles
    /\ studentTasks' = Append(studentTasks,
          [op |-> "toggle", id |-> id, favorites |-> dashData.favorites,
           confirmed |-> FALSE, pc |-> "await"])
    /\ UNCHANGED <<apiVars, modalVars, dashVars, pureVars, detailVars, authVars>>

\* addFavorite / removeFavorite resolved: setFavorites(prev => ...) on the
\* current state, then localStorage is written from the list of the render
\* that created the run
ToggleResolved(i) ==
    /\ i \in 1..Len(studentTasks)
    /\ studentTasks[i].op = "toggle" /\ studentTasks[i].pc = "await"
    /\ LET run == studentTasks[i]
           isFavorited == Includes(run.favorites, run.id)
       IN  /\ dashData' = [dashData EXCEPT !.favorites =
                              Toggled(dashData.favorites, isFavorited, run.id)]
           /\ localStorage' = SetItem(localStorage, FavoritesKey,
                                  Toggled(run.favorites, isFavorited, run.id))
    /\ studentTasks' = [studentTasks EXCEPT ![i].pc = "done"]
    /\ UNCHANGED <<currentUser, clock, pending, response, outcome, participants,
                   dashPage, dashLoading, dashFetches,
                   modalVars, pureVars, detailVars, authVars>>

\* addFavorite / removeFavorite rejected: the catch block shows a toast
ToggleRejected(i) ==
    /\ i \in 1..Len(studentTasks)
    /\ studentTasks[i].op = "toggle" /\ studentTasks[i].pc = "await"
    /\ studentTasks' = [studentTasks EXCEPT ![i].pc = "failed"]
    /\ UNCHANGED <<apiVars, modalVars, dashVars, pureVars, detailVars, authVars>>

\* the Unregister button of a hackathon the page shows as registered:
\* handleUnregister up to its await; confirmed: whether the user was asked
HandleUnregister(id) ==
    /\ dashPage = "StudentDashboard" /\ ~dashLoading
    /\ isRegistered(dashData.myRegistrations, id)
    /\ Cardinality(TasksOf("unregister")) < MaxUnregisters
    /\ studentTasks' = Append(studentTasks,
          [op |-> "unregister", id |-> id, favorites |-> <<>>,
           confirmed |-> FALSE, pc |-> "await"])
    /\ UNCHANGED <<apiVars, modalVars, dashVars, pureVars, detailVars, authVars>>

\* apiHelpers.unregisterFromHackathon returned (it returns whether api.delete
\* resolved or not, and drops the stored records in both cases); the handler
\* goes on to await fetchDashboardData()
UnregisterReturned(i, resolved) ==
    /\ i \in 1..Len(studentTasks)
    /\ studentTasks[i].op = "unregister" /\ studentTasks[i].pc = "await"
    /\ localStorage' = SetItem(localStorage, RegistrationsKey,
           WithoutHackathon(StoredList(localStorage, RegistrationsKey),
                            studentTasks[i].id))
    /\ participants' = IF resolved
                       THEN participants \ {<<currentUser, studentTasks[i].id>>}
                       ELSE participants
    /\ dashLoading' = TRUE
    /\ dashFetches' = Append(dashFetches, NewFetch("unregister"))
    /\ studentTasks' = [studentTasks EXCEPT ![i].pc = "done"]
    /\ UNCHANGED <<currentUser, clock, pending, response, outcome,
                   dashPage, dashData,
                   modalVars, pureVars, detailVars, authVars>>

\* the student's dashboard after its first load: registered for h1, no
\* favorites
StudentInit ==
    /\ currentUser = Student
    /\ localStorage = SetItem([k \in {} |-> JSONstringify(<<>>)],
                              RegistrationsKey,
                              <<MockRegistration("h1", Student, 0, NoData)>>)
    /\ clock = 0
    /\ pending = NoCall
    /\ response = NothingReceived
    /\ outcome = NoOutcome
    /\ participants = {<<Student, "h1">>}
    /\ dashPage = "StudentDashboard"
    /\ dashLoading = FALSE
    /\ dashFetches = <<[pc |-> "done", cause |-> "load", threw |-> FALSE,
                        rejected |-> 0]>>
    /\ dashData = [hackathons |-> Items("hackathons"),
                   myRegistrations |-> Items("registrations"),
                   favorites |-> <<>>]
    /\ studentTasks = <<>>

InitStudent ==
    StudentInit /\ ModalIdle /\ PureIdle /\ DetailIdle /\ AuthIdle

NextStudent ==
    \/ \E id \in Hackathons : ToggleFavorite(id)
    \/ \E i \in 1..(MaxToggles + MaxUnregisters) : ToggleResolved(i)
    \/ \E i \in 1..(MaxToggles + MaxUnregisters) : ToggleRejected(i)
    \/ \E id \in Hackathons : HandleUnregister(id)
    \/ \E i \in 1..(MaxToggles + MaxUnregisters), resolved \in BOOLEAN :
          UnregisterReturned(i, resolved)
    \/ \E i \in 1..(1 + MaxUnregisters),
          results \in [Calls("StudentDashboard") -> Settlements] :
          FetchSettled(i, results)

SpecStudent == InitStudent /\ [][NextStudent]_vars

----------------------------------------------------------------------------
(* HackathonDetail *)

MaxDetailFetches == 2
MaxDetailRegisters == 1

\* useState(null)
NoHackathon == [id |-> "none", listed |-> FALSE, participants |-> <<>>]

\* the records the backend may answer with for a hackathon: without a
\* participants field, or with a list that holds the viewer or not
HackathonData(id) ==
    {[id |-> id, listed |-> FALSE, participants |-> <<>>],
     [id |-> id, listed |-> TRUE, participants |-> <<>>],
     [id |-> id, listed |-> TRUE, participants |-> <<Student>>]}

\* a run of fetchHackathonDetails or handleRegister: id is the hackathon it
\* asks about, route the id of the render that created it, fetch the run of
\* fetchHackathonDetails that handleRegister awaits
DetailTask(op, id, route, pc) ==
    [op |-> op, id |-> id, route |-> route, pc |-> pc, fetch |-> 0]

DetailTasksOf(op) == {i \in 1..Len(detailTasks) : detailTasks[i].op = op}

\* mutant: a response for a hackathon other than the route's is dropped
SetHackathonOfRoute(route, hackathon, data) ==
    IF data.id = route THEN data ELSE hackathon

\* setHackathon(response.data)
SetHackathon(route, hackathon, data) == data

\* hackathon && hackathon.participants && currentUser?.uid
HasParticipants(hackathon, user) ==
    hackathon # NoHackathon /\ hackathon.listed /\ user # NoUser

\* checkRegistrationStatus up to its return or its await, run by the effect
\* if (currentUser && hackathon): the value of isRegistered after it
CheckedRegistered(hackathon, user, isReg) ==
    IF user # NoUser /\ HasParticipants(hackathon, user)
    THEN Includes(hackathon.participants, user)
    ELSE isReg

\* the runs of checkRegistrationStatus that wait for getUserRegistrations
\* (each with the id of its render), with the run the effect starts
CheckStarted(checks, hackathon, user, route) ==
    IF user # NoUser /\ hackathon # NoHackathon
         /\ ~HasParticipants(hackathon, user)
    THEN Append(checks, route)
    ELSE checks

\* the list without its element i
Without(list, i) == SubSeq(list, 1, i - 1) \o SubSeq(list, i + 1, Len(list))

\* run i of fetchHackathonDetails has ended: a handleRegister that awaits it
\* ends as well
Finished(tasks, i, pc) ==
    [j \in 1..Len(tasks) |->
        IF j = i THEN [tasks[j] EXCEPT !.pc = pc]
        ELSE IF tasks[j].op = "register" /\ tasks[j].pc = "refresh"
                  /\ tasks[j].fetch = i
        THEN [tasks[j] EXCEPT !.pc = "done"]
        ELSE tasks[j]]

\* the route changes to another hackathon; the component stays mounted with
\* its state, fetchHackathonDetails is run for the new id and the effect
\* runs the new checkRegistrationStatus
Navigate(id) ==
    /\ detailPage # NoDetail /\ id # detailPage.id
    /\ Cardinality(DetailTasksOf("fetch")) < MaxDetailFetches
    /\ detailPage' = [detailPage EXCEPT
          !.id = id,
          !.loading = TRUE,
          !.isRegistered = CheckedRegistered(detailPage.hackathon, currentUser,
                                             detailPage.isRegistered),
          !.checks = CheckStarted(detailPage.checks, detailPage.hackathon,
                                  currentUser, id)]
    /\ detailTasks' = Append(detailTasks,
                             DetailTask("fetch", id, id, "getHackathon"))
    /\ UNCHANGED <<apiVars, modalVars, dashVars, pureVars, studentVars, authVars>>

\* getHackathon(id) of run i resolved with data: setHackathon, whatever the
\* route shows by now; the run goes on to getHackathonParticipants, and the
\* effect runs checkRegistrationStatus on the new record
FetchResolved(i, data) ==
    /\ i \in 1..Len(detailTasks)
    /\ detailTasks[i].op = "fetch" /\ detailTasks[i].pc = "getHackathon"
    /\ data \in HackathonData(detailTasks[i].id)
    /\ LET hackathon == SetHackathon(detailPage.id, detailPage.hackathon, data)
       IN  /\ detailPage' = [detailPage EXCEPT
                 !.hackathon = hackathon,
                 !.isRegistered = CheckedRegistered(hackathon, currentUser,
                                                    detailPage.isRegistered),
                 !.checks = CheckStarted(detailPage.checks, hackathon,
                                         currentUser, detailPage.id)]
           /\ detailTasks' = [detailTasks EXCEPT ![i].pc = "getParticipants"]
    /\ UNCHANGED <<apiVars, modalVars, dashVars, pureVars, studentVars, authVars>>

\* getHackathon(id) of run i resolved without data (setError; return) or
\* was rejected (catch): finally { setLoading(false) }
FetchFailed(i) ==
    /\ i \in 1..Len(detailTasks)
    /\ detailTasks[i].op = "fetch" /\ detailTasks[i].pc = "getHackathon"
    /\ detailPage' = [detailPage EXCEPT !.error = TRUE, !.loading = FALSE]
    /\ detailTasks' = Finished(detailTasks, i, "failed")
    /\ UNCHANGED <<apiVars, modalVars, dashVars, pureVars, studentVars, authVars>>

\* getHackathonParticipants(id) of run i settled (a rejection is logged):
\* finally { setLoading(false) }
ParticipantsSettled(i) ==
    /\ i \in 1..Len(detailTasks)
    /\ detailTasks[i].op = "fetch" /\ detailTasks[i].pc = "getParticipants"
    /\ detailPage' = [detailPage EXCEPT !.loading = FALSE]
    /\ detailTasks' = Finished(detailTasks, i, "done")
    /\ UNCHANGED <<apiVars, modalVars, dashVars, pureVars, studentVars, authVars>>

\* getUserRegistrations() of run i of checkRegistrationStatus settled;
\* found: a record of the run's id is in the list (a rejection sets false,
\* the run's hackathon has no participants)
CheckSettled(i, found) ==
    /\ detailPage # NoDetail
    /\ i \in 1..Len(detailPage.checks)
    /\ detailPage' = [detailPage EXCEPT !.isRegistered = found,
                                        !.checks = Without(detailPage.checks, i)]
    /\ UNCHANGED <<detailTasks, apiVars, modalVars, dashVars, pureVars,
                   studentVars, authVars>>

\* the page shows its hackathon and canRegister(): RegisterModal calls
\* handleRegister(hackathon.id, data), which awaits registerForHackathon
HandleRegister ==
    /\ detailPage # NoDetail
    /\ ~detailPage.loading /\ ~detailPage.error
    /\ detailPage.hackathon # NoHackathon
    /\ currentUser # NoUser /\ ~detailPage.isRegistered
    /\ Cardinality(DetailTasksOf("register")) < MaxDetailRegisters
    /\ detailTasks' = Append(detailTasks,
          DetailTask("register", detailPage.hackathon.id, detailPage.id, "await"))
    /\ UNCHANGED <<detailPage, apiVars, modalVars, dashVars, pureVars,
                   studentVars, authVars>>

\* registerForHackathon resolved with response.data.hackathon:
\* setIsRegistered(true); setHackathon(it); then the effect runs
\* checkRegistrationStatus on the new record
HandleRegisterUpdated(i, data) ==
    /\ i \in 1..Len(detailTasks)
    /\ detailTasks[i].op = "register" /\ detailTasks[i].pc = "await"
    /\ data \in HackathonData(detailTasks[i].id)
    /\ detailPage' = [detailPage EXCEPT
          !.hackathon = data,
          !.isRegistered = CheckedRegistered(data, currentUser, TRUE),
          !.checks = CheckStarted(detailPage.checks, data, currentUser,
                                  detailPage.id)]
    /\ detailTasks' = [detailTasks EXCEPT ![i].pc = "done"]
    /\ UNCHANGED <<apiVars, modalVars, dashVars, pureVars, studentVars, authVars>>

\* registerForHackathon resolved without a hackathon in its data:
\* setIsRegistered(true); await fetchHackathonDetails() of the render that
\* created the handler
HandleRegisterRefreshing(i) ==
    /\ i \in 1..Len(detailTasks)
    /\ detailTasks[i].op = "register" /\ detailTasks[i].pc = "await"
    /\ detailPage' = [detailPage EXCEPT !.isRegistered = TRUE, !.loading = TRUE]
    /\ detailTasks' = Append(
          [detailTasks EXCEPT ![i].pc = "refresh",
                              ![i].fetch = Len(detailTasks) + 1],
          DetailTask("fetch", detailTasks[i].route, detailTasks[i].route,
                     "getHackathon"))
    /\ UNCHANGED <<apiVars, modalVars, dashVars, pureVars, studentVars, authVars>>

\* registerForHackathon rejected: toast and rethrow
HandleRegisterCaught(i) ==
    /\ i \in 1..Len(detailTasks)
    /\ detailTasks[i].op = "register" /\ detailTasks[i].pc = "await"
    /\ detailTasks' = [detailTasks EXCEPT ![i].pc = "failed"]
    /\ UNCHANGED <<detailPage, apiVars, modalVars, dashVars, pureVars,
                   studentVars, authVars>>

\* the page mounted on the route of h1 by a signed-in student: the first
\* effect has run fetchHackathonDetails
DetailInit ==
    /\ currentUser = Student
    /\ localStorage = [k \in {} |-> JSONstringify(<<>>)]
    /\ clock = 0
    /\ pending = NoCall
    /\ response = NothingReceived
    /\ outcome = NoOutcome
    /\ participants = {}
    /\ detailPage = [id |-> "h1", hackathon |-> NoHackathon, loading |-> TRUE,
                     error |-> FALSE, isRegistered |-> FALSE, checks |-> <<>>]
    /\ detailTasks = <<DetailTask("fetch", "h1", "h1", "getHackathon")>>

InitDetail ==
    DetailInit /\ ModalIdle /\ DashIdle /\ PureIdle /\ StudentIdle /\ AuthIdle

\* an upper bound of the number of runs of fetchHackathonDetails and
\* handleRegister, and of the runs of checkRegistrationStatus they cause
MaxDetailTasks == MaxDetailFetches + 2 * MaxDetailRegisters
MaxDetailChecks == 2 * MaxDetailTasks

NextDetail ==
    \/ \E id \in Hackathons : Navigate(id)
    \/ \E i \in 1..MaxDetailTasks,
          data \in UNION {HackathonData(id) : id \in Hackathons} :
          FetchResolved(i, data)
    \/ \E i \in 1..MaxDetailTasks : FetchFailed(i)
    \/ \E i \in 1..MaxDetailTasks : ParticipantsSettled(i)
    \/ \E i \in 1..MaxDetailChecks, found \in BOOLEAN : CheckSettled(i, found)
    \/ HandleRegister
    \/ \E i \in 1..MaxDetailTasks,
          data \in UNION {HackathonData(id) : id \in Hackathons} :
          HandleRegisterUpdated(i, data)
    \/ \E i \in 1..MaxDetailTasks : HandleRegisterRefreshing(i)
    \/ \E i \in 1..MaxDetailTasks : HandleRegisterCaught(i)

SpecDetail == InitDetail /\ [][NextDetail]_vars

----------------------------------------------------------------------------
(* AuthProvider *)

MaxAuthChanges == 4

\* what waits in the provider: an onAuthStateChanged callback that is due
\* with a user, a fetchUserProfile at its await, a logout at its await
AuthTask(op, user) == [op |-> op, user |-> user]

\* the callbacks are delivered in the order of the changes
FirstCallback(tasks, i) ==
    /\ tasks[i].op = "callback"
    /\ \A j \in 1..(i - 1) : tasks[j].op # "callback"

\* if (userDoc.exists()) setUserProfile(userDoc.data()); a rejection is
\* logged
FetchedProfile(found, user, userProfile) == IF found THEN user ELSE userProfile

\* signin: signInWithEmailAndPassword resolved; auth.currentUser is the
\* user and the listener is due
SignInResolved(user) ==
    /\ currentUser = NoUser /\ authContext.currentUser = NoUser
    /\ authContext.changes < MaxAuthChanges
    /\ currentUser' = user
    /\ authContext' = [authContext EXCEPT !.changes = @ + 1]
    /\ authTasks' = Append(authTasks, AuthTask("callback", user))
    /\ UNCHANGED <<localStorage, clock, pending, response, outcome, participants,
                   modalVars, dashVars, pureVars, studentVars, detailVars>>

\* logout up to the end of signOut(auth): auth.currentUser is null, the
\* listener is due and logout goes on after its await
LogoutSignedOut ==
    /\ currentUser # NoUser /\ authContext.currentUser # NoUser
    /\ authContext.changes < MaxAuthChanges
    /\ currentUser' = NoUser
    /\ authContext' = [authContext EXCEPT !.changes = @ + 1]
    /\ authTasks' = authTasks \o <<AuthTask("callback", NoUser),
                                   AuthTask("logout", NoUser)>>
    /\ UNCHANGED <<localStorage, clock, pending, response, outcome, participants,
                   modalVars, dashVars, pureVars, studentVars, detailVars>>

\* logout after its await: setUserProfile(null)
LogoutContinued(i) ==
    /\ i \in 1..Len(authTasks) /\ authTasks[i].op = "logout"
    /\ authContext' = [authContext EXCEPT !.userProfile = "none"]
    /\ authTasks' = Without(authTasks, i)
    /\ UNCHANGED <<apiVars, modalVars, dashVars, pureVars, studentVars, detailVars>>

\* the onAuthStateChanged callback up to its await or its end:
\* setCurrentUser(user); fetchUserProfile(user) up to getDoc, or
\* setUserProfile(null)
AuthStateChanged(i) ==
    /\ i \in 1..Len(authTasks) /\ FirstCallback(authTasks, i)
    /\ IF authTasks[i].user # NoUser
       THEN /\ authContext' = [authContext EXCEPT
                                  !.currentUser = authTasks[i].user]
            /\ authTasks' = [authTasks EXCEPT ![i].op = "fetchUserProfile"]
       ELSE /\ authContext' = [authContext EXCEPT !.currentUser = NoUser,
                                                  !.userProfile = "none"]
            /\ authTasks' = Without(authTasks, i)
    /\ UNCHANGED <<apiVars, modalVars, dashVars, pureVars, studentVars, detailVars>>

\* getDoc of fetchUserProfile(user) settled; found: it resolved with a
\* document that exists
ProfileFetched(i, found) ==
    /\ i \in 1..Len(authTasks) /\ authTasks[i].op = "fetchUserProfile"
    /\ authContext' = [authContext EXCEPT !.userProfile =
          FetchedProfile(found, authTasks[i].user, authContext.userProfile)]
    /\ authTasks' = Without(authTasks, i)
    /\ UNCHANGED <<apiVars, modalVars, dashVars, pureVars, studentVars, detailVars>>

\* the provider mounted with nobody signed in: the listener is subscribed
\* and its first callback is due
AuthInit ==
    /\ authContext = NoAuthContext
    /\ authTasks = <<AuthTask("callback", NoUser)>>

InitAuth ==
    ApiInit /\ ModalIdle /\ DashIdle /\ PureIdle /\ StudentIdle /\ DetailIdle
        /\ AuthInit

NextAuth ==
    \/ \E user \in Users : SignInResolved(user)
    \/ LogoutSignedOut
    \/ \E i \in 1..(2 * MaxAuthChanges + 1) : LogoutContinued(i)
    \/ \E i \in 1..(2 * MaxAuthChanges + 1) : AuthStateChanged(i)
    \/ \E i \in 1..(2 * MaxAuthChanges + 1), found \in BOOLEAN :
          ProfileFetched(i, found)

SpecAuth == InitAuth /\ [][NextAuth]_vars

----------------------------------------------------------------------------
(* Properties *)

LocalRegistrations == StoredList(localStorage, RegistrationsKey)

\* a step in which the pending call of kind op settles
Settles(op) == pending.op = op /\ pending' = NoCall

\* the list the latest getUserRegistrations call returned
ListReturned == outcome.op = "list" /\ outcome.kind = "return"
ReturnedRegistrations == outcome.value.data.registrations

\* C1: the list getUserRegistrations returns holds no two entries with the
\* same hackathon_id, whatever the remote answer and the local cache are.
\* The fallback path returns the local cache as stored, duplicates included.
C1_NoDuplicateHackathon ==
    ListReturned =>
        \A i, j \in 1..Len(ReturnedRegistrations) :
            ReturnedRegistrations[i].hackathon_id
                = ReturnedRegistrations[j].hackathon_id => i = j

\* C2: when the remote listing succeeds, every hackathon id of the remote
\* list is in the result, and the entry the result holds for such an id is
\* the first remote record with that id, never a later or a local one.
C2_RemoteWins ==
    (outcome.op = "list" /\ response.kind = "ok") =>
        /\ outcome.kind = "return"
        /\ LET remote == BackendRegistrations(response.data)
           IN  \A i \in 1..Len(remote) :
                  /\ \E j \in 1..Len(ReturnedRegistrations) :
                        ReturnedRegistrations[j].hackathon_id = remote[i].hackathon_id
                  /\ \A j \in 1..Len(ReturnedRegistrations) :
                        ReturnedRegistrations[j].hackathon_id = remote[i].hackathon_id
                        => \E k \in 1..i :
                              /\ ReturnedRegistrations[j] = remote[k]
                              /\ \A m \in 1..(k - 1) :
                                    remote[m].hackathon_id # remote[i].hackathon_id

\* C2 witness: a successful listing whose remote list holds two different
\* records of one hackathon, for which the local cache holds a record too
C2_Witness ==
    /\ outcome.op = "list" /\ response.kind = "ok"
    /\ LET remote == BackendRegistrations(response.data)
       IN  /\ Len(remote) = 2
           /\ remote[1].hackathon_id = remote[2].hackathon_id
           /\ remote[1] # remote[2]
           /\ \E i \in 1..Len(LocalRegistrations) :
                 LocalRegistrations[i].hackathon_id = remote[1].hackathon_id
           /\ ReturnedRegistrations[1] = remote[1]

\* C3: when the remote listing fails, getUserRegistrations returns (it does
\* not throw) and the list it returns is the local cache, record for record.
C3_FailureReturnsLocal ==
    (outcome.op = "list" /\ response.kind = "error") =>
        /\ outcome.kind = "return"
        /\ ReturnedRegistrations = LocalRegistrations

\* C3 witness: a failed listing over a local cache of two records
C3_Witness ==
    /\ outcome.op = "list" /\ response.kind = "error"
    /\ outcome.kind = "return"
    /\ Len(LocalRegistrations) = 2
    /\ Len(ReturnedRegistrations) = 2

HasHackathon(registrations, id) ==
    \E i \in 1..Len(registrations) : registrations[i].hackathon_id = id

C5_UnregisterAlwaysSucceeds ==
    [][Settles("unregister") =>
        /\ outcome'.op = "unregister" /\ outcome'.kind = "return"
        /\ response'.kind = "ok" => outcome'.value = response'
        /\ response'.kind = "error" => outcome'.value.data.success = TRUE
        /\ LocalRegistrations' =
              SelectSeq(LocalRegistrations,
                        LAMBDA reg : reg.hackathon_id # pending.id)]_vars

\* C5 witness: an unregistration whose remote delete failed, after two
\* registrations, that left exactly one record in the local cache
C5_Witness ==
    /\ outcome.op = "unregister" /\ outcome.kind = "return"
    /\ response.kind = "error"
    /\ clock = 2
    /\ Len(LocalRegistrations) = 1

\* C6: the local cache is scoped per user: the list getUserRegistrations
\* returns to a signed-in user holds no record written by another user.
\* The code keeps one list under the key 'myRegistrations' for all users.
C6_CacheScopedPerUser ==
    [][(Settles("list") /\ pending.user # NoUser /\ currentUser = pending.user)
        => \A i \in 1..Len(outcome'.value.data.registrations) :
              outcome'.value.data.registrations[i].user_id = pending.user]_vars

\* C7: with no authenticated user registerForHackathon fails fast: it throws
\* the 'Please login to register for hackathons' error as it was created,
\* sends no request and leaves the local cache unchanged.
C7_RegisterFailsFast ==
    [][(currentUser = NoUser /\ pending = NoCall) =>
        /\ pending'.op # "register"
        /\ (outcome' # outcome /\ outcome'.op = "register") =>
              /\ outcome' = Thrown("register",
                    NewError("Please login to register for hackathons"))
              /\ pending' = NoCall
              /\ localStorage' = localStorage]_vars

\* C7 witness: a registration attempt without a user has thrown
C7_Witness ==
    /\ currentUser = NoUser
    /\ pending = NoCall
    /\ outcome.op = "register" /\ outcome.kind = "throw"
    /\ outcome.error.message = "Please login to register for hackathons"

\* C8: with no authenticated user, neither unregisterFromHackathon nor
\* getUserRegistrations sends a request. The code has no such check: both
\* call the api instance straight away.
C8_NoRequestWithoutUser ==
    pending.op \in {"unregister", "list"} => pending.user # NoUser

\* C9: every request sent while a user is signed in carries that user's
\* bearer token. The interceptor swallows a failing getIdToken() and sends
\* the request without the header.
C9_BearerOnEveryRequest ==
    (pending # NoCall /\ pending.user # NoUser) =>
        pending.config.Authorization = Bearer(IdToken(pending.user))

\* the condition a caught error falls under
Condition(error) ==
    IF error.code = "ECONNABORTED" THEN <<"timeout", 0>>
    ELSE IF error.response # NoResponse THEN <<"status", error.response.status>>
    ELSE IF error.request THEN <<"no response", 0>>
    ELSE <<"setup", 0>>

FixedConditions ==
    {<<"timeout", 0>>, <<"no response", 0>>}
        \cup {<<"status", s>> : s \in {401, 403, 404, 408}}

\* C10: a registration that fails by timeout, 401, 403, 404, 408 or for
\* want of a response throws a plain error whose message depends on that
\* condition alone, and no two of these conditions share a message.
C10_DistinctFixedMessages ==
    (outcome.op = "register" /\ response.kind = "error"
        /\ Condition(response.error) \in FixedConditions) =>
        /\ outcome.kind = "throw"
        /\ outcome.error = NewError(outcome.error.message)
        /\ outcome.error.message # response.error.message
        /\ \A e \in AxiosErrors :
              Condition(e) \in FixedConditions =>
                 ((Condition(e) = Condition(response.error))
                    <=> (RegisterCatch(e).message = outcome.error.message))

\* C10 witness: a registration answered with 408 and a server detail has
\* thrown the message of that status
C10_Witness ==
    /\ outcome.op = "register" /\ outcome.kind = "throw"
    /\ response.kind = "error"
    /\ Condition(response.error) = <<"status", 408>>
    /\ response.error.response.detail # ""
    /\ outcome.error.message = "Authentication timeout - please try again"

\* C13: registration is idempotent per (user, hackathon): the local cache
\* never holds two records with the same (hackathon, user) identifier.
\* registerForHackathon appends without looking at what is stored.
C13_OneRecordPerUserAndHackathon ==
    \A i, j \in 1..Len(LocalRegistrations) :
        LocalRegistrations[i].id = LocalRegistrations[j].id => i = j

\* C14: the local cache changes in two ways only: a registration that
\* succeeded appends one record to it, an unregistration removes the records
\* of its hackathon; every other step, getUserRegistrations included, leaves
\* it as it is, and the records that stay are never modified.
C14_CacheFrame ==
    [][\/ LocalRegistrations' = LocalRegistrations
       \/ /\ Settles("register") /\ response'.kind = "ok"
          /\ Len(LocalRegistrations') = Len(LocalRegistrations) + 1
          /\ SubSeq(LocalRegistrations', 1, Len(LocalRegistrations))
                = LocalRegistrations
       \/ /\ Settles("unregister")
          /\ LocalRegistrations' =
                SelectSeq(LocalRegistrations,
                          LAMBDA reg : reg.hackathon_id # pending.id)]_vars

\* C14 witness: a listing that merged a remote record into its result, made
\* after two registrations and an unregistration had left one record stored
C14_Witness ==
    /\ outcome.op = "list" /\ response.kind = "ok"
    /\ clock = 2
    /\ Len(LocalRegistrations) = 1
    /\ Len(ReturnedRegistrations) = 2

\* C15: with no call in flight, the list getUserRegistrations returns to a
\* signed-in user holds hackathon H exactly when the backend lists that user
\* among H's participants. The cache is shared by all users of the browser,
\* and a failed remote delete or listing is answered from the cache alone.
C15_ReconciledMatchesStore ==
    [][(Settles("list") /\ pending.user # NoUser /\ currentUser = pending.user)
        => \A h \in Hackathons :
              HasHackathon(outcome'.value.data.registrations, h)
                <=> <<pending.user, h>> \in participants]_vars

\* C11: a registration that failed is caught by RegisterModal's submit
\* handler, and that submission does not close the modal, on either page.
\* StudentDashboard's handleRegister catches the error without throwing it
\* again, so onSubmit goes on as after a success and its timer calls onClose.
C11_FailureKeepsModalOpen ==
    \A i \in 1..Len(submits) :
        submits[i].failed =>
            /\ submits[i].caught
            /\ submits[i].pc # "timer"
            /\ ~submits[i].closed

\* C16: no second registration starts from the modal while one is in
\* flight. The header's X button stays enabled while loading, and the modal
\* opened again is a new component with loading = false.
C16_OneRegistrationInFlight ==
    \A i, j \in 1..Len(submits) :
        (submits[i].pc = "register" /\ submits[j].pc = "register") => i = j

\* C17: getHackathonStatus returns one of four states by priority:
\* 'completed' when now > end; else 'ongoing' when start <= now <= end; else
\* 'registration_closed' when now > deadline; else 'upcoming'. An event that
\* has started, has not ended and whose deadline has passed is 'ongoing'.
C17_StatusByPriority ==
    returned.f = "getHackathonStatus" =>
        LET now == args.now
            ended == Gt(now, args.endDate)
            running == Ge(now, args.startDate) /\ Le(now, args.endDate)
            late == Gt(now, args.registrationDeadline)
        IN  /\ returned.value \in
                  {"completed", "ongoing", "registration_closed", "upcoming"}
            /\ returned.value = "completed" <=> ended
            /\ returned.value = "ongoing" <=> ~ended /\ running
            /\ returned.value = "registration_closed"
                  <=> ~ended /\ ~running /\ late
            /\ returned.value = "upcoming" <=> ~ended /\ ~running /\ ~late
            /\ (running /\ late) => returned.value = "ongoing"

\* C17 witness: the status of an event that has started, has not ended and
\* whose registration deadline has passed
C17_Witness ==
    /\ returned.f = "getHackathonStatus"
    /\ Ge(args.now, args.startDate) /\ Le(args.now, args.endDate)
    /\ Gt(args.now, args.registrationDeadline)
    /\ returned.value = "ongoing"

\* the participants of the i-th hackathon of the list, counted as the
\* positions of its list; none when the list is missing
Registered(hackathons, i) ==
    IF "participants" \in DOMAIN hackathons[i]
    THEN DOMAIN hackathons[i].participants ELSE {}

\* C18: the aggregation yields the list's length, the sum of the lengths
\* of the participant lists (a missing list counting 0), the number of
\* 'ongoing' records and the number of 'completed' records; all are 0 for
\* the empty list.
C18_Aggregates ==
    LET l == args.hackathons
        total == Cardinality({p \in (1..Len(l)) \X (1..MaxParticipants + 1) :
                                 p[2] \in Registered(l, p[1])})
    IN  /\ returned.f = "calculateStats" =>
              /\ returned.value.totalHackathons = Len(l)
              /\ returned.value.totalRegistrations = total
              /\ returned.value.activeHackathons =
                     Cardinality({i \in 1..Len(l) : l[i].status = "ongoing"})
              /\ returned.value.completedHackathons =
                     Cardinality({i \in 1..Len(l) : l[i].status = "completed"})
              /\ Len(l) = 0 =>
                     returned.value = [totalHackathons |-> 0,
                                       totalRegistrations |-> 0,
                                       activeHackathons |-> 0,
                                       completedHackathons |-> 0]
        /\ returned.f = "AnalyticsModal" =>
              returned.value.totalRegistrations = total

\* C18 witness: statistics of a list with a record without participants
\* list, a record with two participants, an ongoing and a completed record
C18_Witness ==
    /\ returned.f = "calculateStats"
    /\ \E i, j \in 1..Len(args.hackathons) :
          /\ "participants" \notin DOMAIN args.hackathons[i]
          /\ Registered(args.hackathons, j) = {1, 2}
          /\ args.hackathons[i].status = "ongoing"
          /\ args.hackathons[j].status = "completed"
    /\ returned.value.totalRegistrations = 2
    /\ returned.value.activeHackathons = 1

\* C19: for a list that is not empty the most popular record is the first
\* of the records with the greatest number of participants, first in the
\* order of the list as it was passed (a record's id is its place there).
C19_FirstMaximum ==
    (returned.f = "AnalyticsModal" /\ Len(args.hackathons) > 0) =>
        LET l == args.hackathons
            Count(id) == Cardinality(Registered(l,
                             CHOOSE i \in 1..Len(l) : l[i].id = id))
            first == CHOOSE k \in 1..Len(l) :
                        /\ \A j \in 1..Len(l) : Count(j) <= Count(k)
                        /\ \A j \in 1..(k - 1) : Count(j) < Count(k)
        IN  /\ returned.value.mostPopular.type = "object"
            /\ returned.value.mostPopular.fields.id = first
            /\ \E i \in 1..Len(l) : returned.value.mostPopular.fields = l[i]

\* C19 witness: the second and the third record passed share the maximum,
\* and the second is the most popular
C19_Witness ==
    /\ returned.f = "AnalyticsModal"
    /\ Len(args.hackathons) = 3
    /\ \E i, j, k \in 1..3 :
          /\ args.hackathons[i].id = 1 /\ Registered(args.hackathons, i) = {1}
          /\ args.hackathons[j].id = 2 /\ Registered(args.hackathons, j) = {1, 2}
          /\ args.hackathons[k].id = 3 /\ Registered(args.hackathons, k) = {1, 2}
    /\ returned.value.mostPopular.fields.id = 2

C12_LoadingEnds ==
    (/\ Len(dashFetches) > 0
     /\ \A i \in 1..Len(dashFetches) : dashFetches[i].pc = "done")
        => dashLoading = FALSE

\* C12 witness: a load of StudentDashboard has ended in its catch block,
\* after a hackathon response without data and two rejected listings
C12_Witness ==
    /\ dashPage = "StudentDashboard"
    /\ \E i \in 1..Len(dashFetches) :
          /\ dashFetches[i].pc = "done"
          /\ dashFetches[i].threw
          /\ dashFetches[i].rejected = 2
    /\ \A i \in 1..Len(dashFetches) : dashFetches[i].pc = "done"
    /\ dashLoading = FALSE

\* C21: computing the statistics and the analytics leaves the hackathon
\* list it is given as it was, elements and order. AnalyticsModal sorts the
\* array of its hackathons prop in place.
C21_InputNotMutated ==
    [][args'.hackathons = args.hackathons]_vars

\* C23: a registration answered with status 400 throws the server's
\* detail as its message, 'Invalid request' when there is none; answered
\* with a status other than 400, 401, 403, 404 and 408 it throws the
\* server's detail, 'Registration failed' when there is none.
C23_DetailSurfaced ==
    (outcome.op = "register" /\ response.kind = "error"
        /\ response.error.response # NoResponse
        /\ response.error.response.status \notin {401, 403, 404, 408}) =>
        LET status == response.error.response.status
            detail == response.error.response.detail
        IN  /\ outcome.kind = "throw"
            /\ detail # "" => outcome.error.message = detail
            /\ (detail = "" /\ status = 400) =>
                  outcome.error.message = "Invalid request"
            /\ (detail = "" /\ status # 400) =>
                  outcome.error.message = "Registration failed"

\* C23 witness: a registration answered with 400 and a detail has thrown
\* that detail
C23_Witness ==
    /\ outcome.op = "register" /\ outcome.kind = "throw"
    /\ response.kind = "error"
    /\ response.error.response # NoResponse
    /\ response.error.response.status = 400
    /\ outcome.error.message = "Already registered for this hackathon"

\* C25: once unregisterFromHackathon(X) has returned, the lists that
\* getUserRegistrations returns omit X until X is registered for again.
\* The backend lists the user for X, so a registration of the user for X
\* succeeded, and the cache holds no record of X, so an unregistration of X
\* has returned since the last such registration: the list must omit X.
\* A remote delete that failed leaves X in the backend's list.
C25_UnregisteredStaysOut ==
    [][(Settles("list") /\ pending.user # NoUser) =>
         \A h \in Hackathons :
            (/\ <<pending.user, h>> \in participants
             /\ ~HasHackathon(LocalRegistrations, h))
               => ~HasHackathon(outcome'.value.data.registrations, h)]_vars

\* C30: for timestamps with start <= end, at every time, registration is
\* open (isRegistrationOpen, and canRegister for a signed-in user who is not
\* registered) exactly when the status of the hackathon is 'upcoming'.
C30_OpenIffUpcoming ==
    LET upcoming ==
            (/\ args.now.time <= args.endDate.time
             /\ ~(args.startDate.time <= args.now.time)
             /\ args.now.time <= args.registrationDeadline.time)
        timestamps ==
            /\ args.startDate.valid /\ args.endDate.valid
            /\ args.registrationDeadline.valid
            /\ args.startDate.time <= args.endDate.time
    IN  /\ (returned.f = "getHackathonStatus" /\ timestamps) =>
              (returned.value = "upcoming" <=> upcoming)
        /\ (returned.f = "isRegistrationOpen" /\ timestamps) =>
              (returned.value <=> upcoming)
        /\ (returned.f = "canRegister" /\ timestamps
              /\ returned.currentUser /\ ~returned.isRegistered) =>
              (returned.value <=> upcoming)

\* C30 witness: on the day of the deadline, before the start, registration
\* is open
C30_Witness ==
    /\ returned.f = "isRegistrationOpen"
    /\ args.registrationDeadline = args.now
    /\ Lt(args.now, args.startDate) /\ Le(args.startDate, args.endDate)
    /\ returned.value = TRUE

\* C29: on FacultyDashboard, when no fetchDashboardData is in flight the
\* statistics shown agree with the list held in state: totalHackathons is
\* its length and totalRegistrations the sum of the lengths of its
\* participant lists, after loads, deletes and edits, failed refreshes
\* included.
C29_StatsAgreeWithList ==
    (/\ dashPage = "FacultyDashboard"
     /\ \A i \in 1..Len(dashFetches) : dashFetches[i].pc = "done") =>
        LET l == dashData.hackathons
        IN  /\ dashData.stats.totalHackathons = Len(l)
            /\ dashData.stats.totalRegistrations =
                  Cardinality({p \in (1..Len(l)) \X (1..MaxParticipants + 1) :
                                  p[2] \in Registered(l, p[1])})

\* C29 witness: after a load that listed two hackathons one was deleted,
\* the refresh that followed failed, and list and statistics are empty
C29_Witness ==
    /\ dashPage = "FacultyDashboard"
    /\ Len(dashFetches) = 2
    /\ dashFetches[1] = [pc |-> "done", cause |-> "load", threw |-> FALSE,
                         rejected |-> 0]
    /\ dashFetches[2] = [pc |-> "done", cause |-> "delete", threw |-> TRUE,
                         rejected |-> 1]
    /\ dashData.hackathons = <<>>
    /\ dashData.stats.totalHackathons = 0


\* C22: on the student dashboard every unregisterFromHackathon call that was
\* issued was preceded by a confirmation of the user
C22_UnregisterConfirmed ==
    \A i \in 1..Len(studentTasks) :
        studentTasks[i].op = "unregister" => studentTasks[i].confirmed

\* C27: when every toggleFavorite run has settled (and nothing else replaced
\* the favorites state), the favorites list stored in localStorage equals
\* the favorites list in memory
C27_StoredFavoritesMatch ==
    (/\ Len(dashFetches) = 1
     /\ TasksOf("toggle") # {}
     /\ \A i \in 1..Len(studentTasks) :
           studentTasks[i].op = "toggle" /\ studentTasks[i].pc # "await")
        => StoredList(localStorage, FavoritesKey) = dashData.favorites


\* C24: a response of getHackathon is applied whatever the route shows when
\* it arrives: a step in which a run of fetchHackathonDetails for hackathon
\* A receives its data leaves A's record in the page's state
C24_StaleResponseApplied ==
    [][\A i \in 1..Len(detailTasks) :
          (/\ detailTasks[i].op = "fetch"
           /\ detailTasks[i].pc = "getHackathon"
           /\ Len(detailTasks') >= i
           /\ detailTasks'[i].pc = "getParticipants")
             => detailPage'.hackathon.id = detailTasks[i].id]_vars

\* the view of one hackathon holds the record of another: the response for
\* the route's hackathon arrived, no registration ran, nothing is in flight
C24_Witness ==
    /\ detailPage # NoDetail
    /\ detailPage.hackathon # NoHackathon
    /\ detailPage.hackathon.id # detailPage.id
    /\ detailPage.checks = <<>>
    /\ \A i \in 1..Len(detailTasks) :
          detailTasks[i].op = "fetch" /\ detailTasks[i].pc \in {"done", "failed"}
    /\ \E i \in 1..Len(detailTasks) :
          detailTasks[i].id = detailPage.id /\ detailTasks[i].pc = "done"

\* C26: on the detail page, when handleRegister has completed successfully
\* for the hackathon the page shows, isRegistered is true
C26_RegisteredStays ==
    \A i \in 1..Len(detailTasks) :
        (/\ detailTasks[i].op = "register"
         /\ detailTasks[i].pc = "done"
         /\ detailTasks[i].id = detailPage.id)
           => detailPage.isRegistered


\* C28: in AuthProvider, when no auth-state callback, profile fetch or
\* logout is pending and currentUser is null, userProfile is null
C28_NoProfileWithoutUser ==
    (authTasks = <<>> /\ authContext.currentUser = NoUser)
        => authContext.userProfile = "none"

====
